---------------------------- MODULE Spec2Model ----------------------------
(***************************************************************************)
(* Model of server.js: an Express relay between a client, the Braintree    *)
(* gateway and a Firestore document store.  Every request handler is an    *)
(* async function; it runs atomically up to each `await`, the awaited      *)
(* remote call completes in a later step, and any number of requests may   *)
(* be in flight between the steps of one request.                          *)
(***************************************************************************)
EXTENDS Integers, Sequences, FiniteSets, TLC

\* Number of POST /process_payment requests the model follows.
MaxReq == 2

Reqs == 1..MaxReq

\* Transaction ids the gateway hands out: one sale per request at most.
TxIds == 1..MaxReq

(***************************************************************************)
(* Values of the request body, the gateway and the store.                  *)
(***************************************************************************)
\* A field that is absent from the body (undefined, "" and null are all falsy).
Undefined == "undefined"

Null == "null"

\* amount is a string; it is modelled as its characters so that parseFloat
\* can be computed.  The empty string is the falsy amount.
Amount25 == <<"2", "5", ".", "0", "0">>

Amount7 == <<"7">>

AmountX == <<"x">>

UserIds == {"U1"}

CartIds == {"C1", "C2"}

\* The product lists of a cart: opaque data, passed through unchanged.
ProductLists == {"[A:1]", "[B:2]"}

\* saleResult.message of a declined sale; it may be absent.
Messages == {Undefined, "Do Not Honor"}

\* saleResult.transaction of an accepted sale: with or without the PayPal
\* payer email and the shipping details.
PayerDetails ==
    {[payerEmail |-> Undefined, shippingDetails |-> Undefined],
     [payerEmail |-> "payer@example.com", shippingDetails |-> "addr1"]}

\* customers/{userId}/cart/{cartId}
CartRef(userId, cartId) == <<userId, cartId>>

CartKeys == {CartRef(u, c) : u \in UserIds, c \in CartIds}

NoCart == [exists |-> FALSE]

NoOrder == [exists |-> FALSE]

NoTransaction == [status |-> "none"]

NoSale == [kind |-> "none"]

NoSnapshot == [read |-> FALSE]

NoResponse == [status |-> 0]

NoCalls == [sale |-> 0, get |-> 0, commit |-> 0]

(***************************************************************************)
(* JavaScript helpers.                                                     *)
(***************************************************************************)
\* !v for a string-valued field
Falsy(v) == v = Undefined

\* !amount
FalsyAmount(s) == Len(s) = 0

\* a || b
OrElse(a, b) == IF Falsy(a) THEN b ELSE a

Digits == <<"0", "1", "2", "3", "4", "5", "6", "7", "8", "9">>

IsDigit(c) == \E d \in 1..10 : Digits[d] = c

DigitVal(c) == (CHOOSE d \in 1..10 : Digits[d] = c) - 1

\* first index >= i of s that holds no digit
RECURSIVE DigitsEnd(_, _)
DigitsEnd(s, i) ==
    IF i <= Len(s) /\ IsDigit(s[i]) THEN DigitsEnd(s, i + 1) ELSE i

\* value of the digits s[i..j-1]
RECURSIVE DigitsValue(_, _, _)
DigitsValue(s, i, j) ==
    IF j <= i THEN 0 ELSE DigitsValue(s, i, j - 1) * 10 + DigitVal(s[j - 1])

NaN == [nan |-> TRUE]

\* parseFloat(s): the longest numeric prefix of s (digits, optionally a point
\* and digits), NaN when there is none.  The number is kept in hundredths.
ParseFloat(s) ==
    LET e == DigitsEnd(s, 1)
        hasPoint == e <= Len(s) /\ s[e] = "."
        f == IF hasPoint THEN DigitsEnd(s, e + 1) ELSE e
        tenths == IF hasPoint /\ f > e + 1 THEN DigitVal(s[e + 1]) ELSE 0
        hundredths == IF hasPoint /\ f > e + 2 THEN DigitVal(s[e + 2]) ELSE 0
    IN  IF e = 1 /\ ~(hasPoint /\ f > e + 1)
        THEN NaN
        ELSE [nan |-> FALSE,
              cents |-> DigitsValue(s, 1, e) * 100 + tenths * 10 + hundredths]

(***************************************************************************)
(* State.                                                                  *)
(***************************************************************************)
VARIABLES
    pc,             \* where each payment request stands in the handler
    body,           \* req.body of each payment request
    saleResult,     \* what gateway.transaction.sale returned to the request
    cartSnapshot,   \* what cartRef.get() returned to the request
    res,            \* the response the request sent
    calls,          \* remote calls each request has issued
    applied,        \* store writes of each request that took effect
    carts,          \* Firestore: customers/{userId}/cart/{cartId}
    orders,         \* Firestore: orders/{transactionId}
    now,            \* Firestore server clock
    transactions,   \* the gateway's transactions, by id
    nextTx,         \* next transaction id of the gateway
    out             \* last response of the token, verify and health endpoints

vars == <<pc, body, saleResult, cartSnapshot, res, calls, applied, carts,
          orders, now, transactions, nextTx, out>>

reqVars == <<pc, body, saleResult, cartSnapshot, res, calls, applied>>

storeVars == <<carts, orders, now>>

gatewayVars == <<transactions, nextTx>>

Body(nonce, amount, userId, cartId, sessionId) ==
    [paymentMethodNonce |-> nonce, amount |-> amount, userId |-> userId,
     cartId |-> cartId, sessionId |-> sessionId]

\* The request bodies the model sends: complete ones on both carts, one
\* whose amount is present but no number, and one per missing field.
Bodies ==
    {Body("nonce1", Amount25, "U1", "C1", "S1"),
     Body("nonce1", Amount7, "U1", "C2", Undefined),
     Body("nonce1", AmountX, "U1", "C1", Undefined),
     Body(Undefined, Amount25, "U1", "C1", "S1"),
     Body("nonce1", <<>>, "U1", "C1", "S1"),
     Body("nonce1", Amount25, Undefined, "C1", "S1"),
     Body("nonce1", Amount25, "U1", Undefined, "S1")}

NoBody ==
    [paymentMethodNonce |-> Undefined, amount |-> <<>>, userId |-> Undefined,
     cartId |-> Undefined, sessionId |-> Undefined]

Init ==
    /\ pc = [r \in Reqs |-> "idle"]
    /\ body = [r \in Reqs |-> NoBody]
    /\ saleResult = [r \in Reqs |-> NoSale]
    /\ cartSnapshot = [r \in Reqs |-> NoSnapshot]
    /\ res = [r \in Reqs |-> NoResponse]
    /\ calls = [r \in Reqs |-> NoCalls]
    /\ applied = [r \in Reqs |-> {}]
    /\ carts = [k \in CartKeys |-> NoCart]
    /\ orders = [t \in TxIds |-> NoOrder]
    /\ now = 1
    /\ transactions = [t \in TxIds |-> NoTransaction]
    /\ nextTx = 1
    /\ out = NoResponse

(***************************************************************************)
(* POST /process_payment                                                   *)
(***************************************************************************)
\* Validate with the check of cartId left out.
ValidateIgnoresCartId(b) ==
    ~(\/ Falsy(b.paymentMethodNonce)
      \/ FalsyAmount(b.amount)
      \/ Falsy(b.userId))

\* line 75: the body passes validation
Validate(b) ==
    ~(\/ Falsy(b.paymentMethodNonce)
      \/ FalsyAmount(b.amount)
      \/ Falsy(b.userId)
      \/ Falsy(b.cartId))

\* OrderData with another status.
OrderDataPending(b, sale, snapshot, ts) ==
    [exists |-> TRUE,
     userId |-> b.userId,
     cartId |-> b.cartId,
     sessionId |-> OrElse(b.sessionId, Null),
     transactionId |-> sale.id,
     amount |-> ParseFloat(b.amount),
     products |-> snapshot.products,
     timestamp |-> ts,
     status |-> "Pending",
     paymentMethod |-> "PayPal",
     customerEmail |-> OrElse(sale.payerEmail, Null),
     shippingAddress |-> OrElse(sale.shippingDetails, Null)]

\* lines 105-117, with the server timestamp resolved when the write applies
OrderData(b, sale, snapshot, ts) ==
    [exists |-> TRUE,
     userId |-> b.userId,
     cartId |-> b.cartId,
     sessionId |-> OrElse(b.sessionId, Null),
     transactionId |-> sale.id,
     amount |-> ParseFloat(b.amount),
     products |-> snapshot.products,
     timestamp |-> ts,
     status |-> "Completed",
     paymentMethod |-> "PayPal",
     customerEmail |-> OrElse(sale.payerEmail, Null),
     shippingAddress |-> OrElse(sale.shippingDetails, Null)]

\* The catch block of the handler.
ErrorResponse(message) ==
    [status |-> 500, success |-> FALSE, error |-> message]

\* ProcessPayment reading the cart before the sale is made.
ProcessPaymentReadsCartFirst(r, b) ==
    /\ pc[r] = "idle"
    /\ \A q \in Reqs : q < r => pc[q] # "idle"
    /\ body' = [body EXCEPT ![r] = b]
    /\ IF ~Validate(b)
       THEN /\ res' = [res EXCEPT ![r] =
                          [status |-> 400, error |-> "Missing required fields"]]
            /\ pc' = [pc EXCEPT ![r] = "done"]
            /\ calls' = calls
       ELSE /\ calls' = [calls EXCEPT ![r].get = @ + 1]
            /\ pc' = [pc EXCEPT ![r] = "awaitCart"]
            /\ res' = res
    /\ UNCHANGED <<saleResult, cartSnapshot, applied, storeVars, gatewayVars, out>>

\* A request arrives: the handler validates the body and, when it is
\* complete, calls gateway.transaction.sale.  Slots are taken in order.
ProcessPayment(r, b) ==
    /\ pc[r] = "idle"
    /\ \A q \in Reqs : q < r => pc[q] # "idle"
    /\ body' = [body EXCEPT ![r] = b]
    /\ IF ~Validate(b)
       THEN /\ res' = [res EXCEPT ![r] =
                          [status |-> 400, error |-> "Missing required fields"]]
            /\ pc' = [pc EXCEPT ![r] = "done"]
            /\ calls' = calls
       ELSE /\ calls' = [calls EXCEPT ![r].sale = @ + 1]
            /\ pc' = [pc EXCEPT ![r] = "awaitSale"]
            /\ res' = res
    /\ UNCHANGED <<saleResult, cartSnapshot, applied, storeVars, gatewayVars, out>>

\* The gateway accepts the charge as transaction t; the handler goes on to
\* read the cart.
SaleSucceeds(r, t, details) ==
    /\ pc[r] = "awaitSale"
    /\ ~ParseFloat(body[r].amount).nan
    /\ saleResult' = [saleResult EXCEPT ![r] =
                         [kind |-> "result", success |-> TRUE, id |-> t,
                          payerEmail |-> details.payerEmail,
                          shippingDetails |-> details.shippingDetails]]
    /\ transactions' = [transactions EXCEPT ![t] =
                           [status |-> "submitted_for_settlement",
                            amount |-> body[r].amount]]
    /\ nextTx' = IF t = nextTx THEN nextTx + 1 ELSE nextTx
    /\ calls' = [calls EXCEPT ![r].get = @ + 1]
    /\ pc' = [pc EXCEPT ![r] = "awaitCart"]
    /\ UNCHANGED <<body, cartSnapshot, res, applied, storeVars, out>>

\* SaleDeclines without the return: the handler goes on to read the cart.
SaleDeclinesFallsThrough(r, message) ==
    /\ pc[r] = "awaitSale"
    /\ saleResult' = [saleResult EXCEPT ![r] =
                         [kind |-> "result", success |-> FALSE,
                          message |-> message]]
    /\ res' = [res EXCEPT ![r] =
                  [status |-> 400, success |-> FALSE,
                   message |-> OrElse(message, "Payment processing failed")]]
    /\ transactions' = [transactions EXCEPT ![nextTx] =
                           [status |-> "processor_declined",
                            amount |-> body[r].amount]]
    /\ nextTx' = nextTx + 1
    /\ calls' = [calls EXCEPT ![r].get = @ + 1]
    /\ pc' = [pc EXCEPT ![r] = "awaitCart"]
    /\ UNCHANGED <<body, cartSnapshot, applied, storeVars, out>>

\* The gateway declines: 400 with the gateway's message or the default.
SaleDeclines(r, message) ==
    /\ pc[r] = "awaitSale"
    /\ saleResult' = [saleResult EXCEPT ![r] =
                         [kind |-> "result", success |-> FALSE,
                          message |-> message]]
    /\ res' = [res EXCEPT ![r] =
                  [status |-> 400, success |-> FALSE,
                   message |-> OrElse(message, "Payment processing failed")]]
    /\ transactions' = [transactions EXCEPT ![nextTx] =
                           [status |-> "processor_declined",
                            amount |-> body[r].amount]]
    /\ nextTx' = nextTx + 1
    /\ pc' = [pc EXCEPT ![r] = "done"]
    /\ UNCHANGED <<body, cartSnapshot, calls, applied, storeVars, out>>

\* SaleThrows with the fault ignored: the handler goes on to read the cart.
SaleThrowsGoesOn(r) ==
    /\ pc[r] = "awaitSale"
    /\ saleResult' = [saleResult EXCEPT ![r] = [kind |-> "threw"]]
    /\ calls' = [calls EXCEPT ![r].get = @ + 1]
    /\ pc' = [pc EXCEPT ![r] = "awaitCart"]
    /\ UNCHANGED <<body, cartSnapshot, res, applied, storeVars, gatewayVars, out>>

\* gateway.transaction.sale rejects (transport or processor fault).
SaleThrows(r) ==
    /\ pc[r] = "awaitSale"
    /\ saleResult' = [saleResult EXCEPT ![r] = [kind |-> "threw"]]
    /\ res' = [res EXCEPT ![r] = ErrorResponse("gateway unavailable")]
    /\ pc' = [pc EXCEPT ![r] = "done"]
    /\ UNCHANGED <<body, cartSnapshot, calls, applied, storeVars, gatewayVars, out>>

\* CartGetReturns without the test of cartSnapshot.exists.
CartGetReturnsNoCheck(r) ==
    LET cart == carts[CartRef(body[r].userId, body[r].cartId)] IN
    /\ pc[r] = "awaitCart"
    /\ cartSnapshot' = [cartSnapshot EXCEPT ![r] =
                           [read |-> TRUE, exists |-> cart.exists,
                            products |-> IF cart.exists THEN cart.products
                                         ELSE Undefined]]
    /\ calls' = [calls EXCEPT ![r].commit = @ + 1]
    /\ pc' = [pc EXCEPT ![r] = "awaitCommit"]
    /\ UNCHANGED <<body, saleResult, res, applied, storeVars, gatewayVars, out>>

\* CartGetReturns without the return after the 404: the handler goes on to
\* the commit.
CartGetReturnsNotFoundGoesOn(r) ==
    LET cart == carts[CartRef(body[r].userId, body[r].cartId)] IN
    /\ pc[r] = "awaitCart"
    /\ cartSnapshot' = [cartSnapshot EXCEPT ![r] =
                           [read |-> TRUE, exists |-> cart.exists,
                            products |-> IF cart.exists THEN cart.products
                                         ELSE Undefined]]
    /\ res' = IF cart.exists THEN res
              ELSE [res EXCEPT ![r] = [status |-> 404, error |-> "Cart not found"]]
    /\ calls' = [calls EXCEPT ![r].commit = @ + 1]
    /\ pc' = [pc EXCEPT ![r] = "awaitCommit"]
    /\ UNCHANGED <<body, saleResult, applied, storeVars, gatewayVars, out>>

\* cartRef.get() resolves: 404 when the cart is absent, otherwise the order
\* is composed and db.runTransaction is called.
CartGetReturns(r) ==
    LET cart == carts[CartRef(body[r].userId, body[r].cartId)] IN
    /\ pc[r] = "awaitCart"
    /\ IF ~cart.exists
       THEN /\ cartSnapshot' = [cartSnapshot EXCEPT ![r] =
                                   [read |-> TRUE, exists |-> FALSE]]
            /\ res' = [res EXCEPT ![r] =
                          [status |-> 404, error |-> "Cart not found"]]
            /\ pc' = [pc EXCEPT ![r] = "done"]
            /\ calls' = calls
       ELSE /\ cartSnapshot' = [cartSnapshot EXCEPT ![r] =
                                   [read |-> TRUE, exists |-> TRUE,
                                    products |-> cart.products]]
            /\ calls' = [calls EXCEPT ![r].commit = @ + 1]
            /\ pc' = [pc EXCEPT ![r] = "awaitCommit"]
            /\ res' = res
    /\ UNCHANGED <<body, saleResult, applied, storeVars, gatewayVars, out>>

\* cartRef.get() rejects.
CartGetThrows(r) ==
    /\ pc[r] = "awaitCart"
    /\ res' = [res EXCEPT ![r] = ErrorResponse("store unavailable")]
    /\ pc' = [pc EXCEPT ![r] = "done"]
    /\ UNCHANGED <<body, saleResult, cartSnapshot, calls, applied, storeVars,
                   gatewayVars, out>>

\* SetOrder keyed by the position of the commit instead of the transaction id.
SetOrderAtClock(os, t, data) == [os EXCEPT ![now] = data]

\* transaction.set(orders/{id}, orderData): create or overwrite.
SetOrder(os, t, data) == [os EXCEPT ![t] = data]

\* DeleteCart removing every cart of the collection.
DeleteAllCarts(cs, ref) == [k \in DOMAIN cs |-> NoCart]

\* transaction.delete(cartRef): no precondition on the document.
DeleteCart(cs, ref) == [cs EXCEPT ![ref] = NoCart]

\* CommitApplies with the two writes outside a transaction: the order is
\* written, the cart delete is not.
CommitAppliesOrderOnly(r) ==
    /\ pc[r] = "awaitCommit"
    /\ orders' = SetOrder(orders, saleResult[r].id,
                          OrderData(body[r], saleResult[r], cartSnapshot[r], now))
    /\ now' = now + 1
    /\ applied' = [applied EXCEPT ![r] = {"set"}]
    /\ pc' = [pc EXCEPT ![r] = "committed"]
    /\ UNCHANGED <<body, saleResult, cartSnapshot, res, calls, carts, gatewayVars, out>>

\* db.runTransaction commits: both writes take effect in one step.
CommitApplies(r) ==
    /\ pc[r] = "awaitCommit"
    /\ orders' = SetOrder(orders, saleResult[r].id,
                          OrderData(body[r], saleResult[r], cartSnapshot[r], now))
    /\ carts' = DeleteCart(carts, CartRef(body[r].userId, body[r].cartId))
    /\ now' = now + 1
    /\ applied' = [applied EXCEPT ![r] = {"set", "delete"}]
    /\ pc' = [pc EXCEPT ![r] = "committed"]
    /\ UNCHANGED <<body, saleResult, cartSnapshot, res, calls, gatewayVars, out>>

\* CommitFails with the transaction submitted again after the failure.
CommitFailsRetries(r) ==
    /\ pc[r] = "awaitCommit"
    /\ calls' = [calls EXCEPT ![r].commit = @ + 1]
    /\ UNCHANGED <<pc, body, saleResult, cartSnapshot, res, applied, storeVars,
                   gatewayVars, out>>

\* CommitFails with the error swallowed: the success response is sent.
CommitFailsAnswersSuccess(r) ==
    /\ pc[r] = "awaitCommit"
    /\ res' = [res EXCEPT ![r] =
                  [status |-> 200, success |-> TRUE,
                   transactionId |-> saleResult[r].id,
                   amount |-> body[r].amount]]
    /\ pc' = [pc EXCEPT ![r] = "done"]
    /\ UNCHANGED <<body, saleResult, cartSnapshot, calls, applied, storeVars,
                   gatewayVars, out>>

\* CommitFails with the order written before the failure.
CommitFailsAfterOrderWrite(r) ==
    /\ pc[r] = "awaitCommit"
    /\ orders' = SetOrder(orders, saleResult[r].id,
                          OrderData(body[r], saleResult[r], cartSnapshot[r], now))
    /\ now' = now + 1
    /\ applied' = [applied EXCEPT ![r] = {"set"}]
    /\ res' = [res EXCEPT ![r] = ErrorResponse("store unavailable")]
    /\ pc' = [pc EXCEPT ![r] = "done"]
    /\ UNCHANGED <<body, saleResult, cartSnapshot, calls, carts, gatewayVars, out>>

\* db.runTransaction rejects: nothing was written.
CommitFails(r) ==
    /\ pc[r] = "awaitCommit"
    /\ res' = [res EXCEPT ![r] = ErrorResponse("store unavailable")]
    /\ pc' = [pc EXCEPT ![r] = "done"]
    /\ UNCHANGED <<body, saleResult, cartSnapshot, calls, applied, storeVars,
                   gatewayVars, out>>

\* lines 128-132: the success response
RespondSuccess(r) ==
    /\ pc[r] = "committed"
    /\ res' = [res EXCEPT ![r] =
                  [status |-> 200, success |-> TRUE,
                   transactionId |-> saleResult[r].id,
                   amount |-> body[r].amount]]
    /\ pc' = [pc EXCEPT ![r] = "done"]
    /\ UNCHANGED <<body, saleResult, cartSnapshot, calls, applied, storeVars,
                   gatewayVars, out>>

(***************************************************************************)
(* The other endpoints.                                                    *)
(***************************************************************************)
\* GET /generate-braintree-token; ok is whether clientToken.generate
\* resolves.  The field gateway records what the gateway call did.
GenerateTokenGet(ok) ==
    /\ out' = IF ok
              THEN [endpoint |-> "GET /generate-braintree-token",
                    gateway |-> "resolved",
                    status |-> 200, token |-> "clientToken"]
              ELSE [endpoint |-> "GET /generate-braintree-token",
                    gateway |-> "rejected",
                    status |-> 500, error |-> "Failed to generate client token"]
    /\ out' # out
    /\ UNCHANGED <<reqVars, storeVars, gatewayVars>>

\* POST /generate-braintree-token
GenerateTokenPost(ok) ==
    /\ out' = IF ok
              THEN [endpoint |-> "POST /generate-braintree-token",
                    gateway |-> "resolved",
                    status |-> 200, token |-> "clientToken"]
              ELSE [endpoint |-> "POST /generate-braintree-token",
                    gateway |-> "rejected",
                    status |-> 500, error |-> "Failed to generate client token"]
    /\ out' # out
    /\ UNCHANGED <<reqVars, storeVars, gatewayVars>>

\* req.query.transactionId is absent
NoTransactionId == 0

\* IsValidStatus accepting settled transactions only.
IsValidStatusSettledOnly(status) == status = "settled"

\* line 153
IsValidStatus(status) == status \in {"settled", "submitted_for_settlement"}

\* transaction.status as gateway.transaction.find may report it: a sale
\* submitted for settlement is settled by the gateway in its own time.
FindStatuses(tx) ==
    IF tx.status = "submitted_for_settlement"
    THEN {"submitted_for_settlement", "settled"}
    ELSE {tx.status}

TxStatuses == {"none", "submitted_for_settlement", "settled", "processor_declined"}

\* the gateway has a transaction with this id
Known(transactionId) ==
    transactionId \in TxIds /\ transactions[transactionId] # NoTransaction

\* VerifyPayment without the test of transactionId: the lookup is made with
\* the absent id and fails.
VerifyPaymentNoIdCheck(transactionId, found, status) ==
    /\ found => Known(transactionId) /\ status \in FindStatuses(transactions[transactionId])
    /\ ~found => status = "none"
    /\ out' =
          IF found
          THEN [endpoint |-> "GET /verify_payment", query |-> transactionId,
                lookups |-> 1, found |-> TRUE, gwStatus |-> status,
                status |-> 200,
                isValid |-> IsValidStatus(status),
                txStatus |-> status,
                amount |-> transactions[transactionId].amount]
          ELSE [endpoint |-> "GET /verify_payment", query |-> transactionId,
                lookups |-> 1, found |-> FALSE,
                status |-> 404, isValid |-> FALSE,
                error |-> "Transaction not found"]
    /\ out' # out
    /\ UNCHANGED <<reqVars, storeVars, gatewayVars>>

\* GET /verify_payment; found is whether gateway.transaction.find resolves,
\* status the transaction.status it resolves with.  The fields lookups,
\* found and gwStatus record what the gateway call did.
VerifyPayment(transactionId, found, status) ==
    /\ found => Known(transactionId) /\ status \in FindStatuses(transactions[transactionId])
    /\ ~found => status = "none"
    /\ out' =
          IF transactionId = NoTransactionId
          THEN [endpoint |-> "GET /verify_payment", query |-> transactionId,
                lookups |-> 0,
                status |-> 400, error |-> "Transaction ID required"]
          ELSE IF found
          THEN [endpoint |-> "GET /verify_payment", query |-> transactionId,
                lookups |-> 1, found |-> TRUE, gwStatus |-> status,
                status |-> 200,
                isValid |-> IsValidStatus(status),
                txStatus |-> status,
                amount |-> transactions[transactionId].amount]
          ELSE [endpoint |-> "GET /verify_payment", query |-> transactionId,
                lookups |-> 1, found |-> FALSE,
                status |-> 404, isValid |-> FALSE,
                error |-> "Transaction not found"]
    /\ out' # out
    /\ UNCHANGED <<reqVars, storeVars, gatewayVars>>

\* GET /
HealthCheck ==
    /\ out' = [endpoint |-> "GET /", status |-> 200, health |-> "active",
               service |-> "Braintree-PayPal Gateway"]
    /\ out' # out
    /\ UNCHANGED <<reqVars, storeVars, gatewayVars>>

(***************************************************************************)
(* The environment: whoever fills the carts.                               *)
(***************************************************************************)
\* Another system creates or rewrites a cart.
ExternalCartWrite(ref, products) ==
    /\ carts[ref] # [exists |-> TRUE, products |-> products]
    /\ carts' = [carts EXCEPT ![ref] = [exists |-> TRUE, products |-> products]]
    /\ UNCHANGED <<reqVars, orders, now, gatewayVars, out>>

(***************************************************************************)
(* Specifications.                                                         *)
(***************************************************************************)
\* The payment handler and the writers of the carts.
PaymentSteps ==
    \/ \E r \in Reqs, b \in Bodies : ProcessPayment(r, b)
    \/ \E r \in Reqs, m \in Messages : SaleDeclines(r, m)
    \/ \E r \in Reqs : SaleThrows(r)
    \/ \E r \in Reqs : CartGetReturns(r)
    \/ \E r \in Reqs : CartGetThrows(r)
    \/ \E r \in Reqs : CommitApplies(r)
    \/ \E r \in Reqs : CommitFails(r)
    \/ \E r \in Reqs : RespondSuccess(r)
    \/ \E ref \in CartKeys, p \in ProductLists : ExternalCartWrite(ref, p)

\* The token, verify and health endpoints.
OtherEndpoints ==
    \/ \E ok \in BOOLEAN : GenerateTokenGet(ok)
    \/ \E ok \in BOOLEAN : GenerateTokenPost(ok)
    \/ \E t \in TxIds \cup {NoTransactionId}, found \in BOOLEAN, st \in TxStatuses :
          VerifyPayment(t, found, st)
    \/ HealthCheck

Common == PaymentSteps \/ OtherEndpoints

\* The gateway gives every sale a fresh transaction id.
Next ==
    \/ Common
    \/ \E r \in Reqs, d \in PayerDetails : SaleSucceeds(r, nextTx, d)

Spec == Init /\ [][Next]_vars

\* The handler takes saleResult.transaction.id as it comes: here a sale may
\* also report an id the gateway has reported before.
NextReuse ==
    \/ Common
    \/ \E r \in Reqs, t \in 1..nextTx, d \in PayerDetails : SaleSucceeds(r, t, d)

SpecReuse == Init /\ [][NextReuse]_vars

\* The steps that complete an awaited call of request r.
Continue(r) ==
    \/ \E d \in PayerDetails : SaleSucceeds(r, nextTx, d)
    \/ \E m \in Messages : SaleDeclines(r, m)
    \/ SaleThrows(r)
    \/ CartGetReturns(r)
    \/ CartGetThrows(r)
    \/ CommitApplies(r)
    \/ CommitFails(r)
    \/ RespondSuccess(r)

\* The payment requests by themselves (the other endpoints share no state
\* with them), every awaited gateway or store call eventually resolving or
\* rejecting.
NextPayment ==
    \/ PaymentSteps
    \/ \E r \in Reqs, d \in PayerDetails : SaleSucceeds(r, nextTx, d)

SpecFair ==
    /\ Init
    /\ [][NextPayment]_vars
    /\ \A r \in Reqs : WF_vars(Continue(r))

(***************************************************************************)
(* Properties.                                                             *)
(***************************************************************************)
\* the sale of request r was accepted by the gateway
Succeeded(r) == saleResult[r].kind = "result" /\ saleResult[r].success

\* the sale of request r was declined by the gateway
Declined(r) == saleResult[r].kind = "result" /\ ~saleResult[r].success

\* the cart request r names
RefOf(r) == CartRef(body[r].userId, body[r].cartId)

\* the commit of request r takes effect in this step
CommitStep(r) == applied'[r] # applied[r]

\* some required field of the body is missing
AnyMissing(b) ==
    \/ b.paymentMethodNonce = Undefined
    \/ b.amount = <<>>
    \/ b.userId = Undefined
    \/ b.cartId = Undefined

MissingFieldsResponse == [status |-> 400, error |-> "Missing required fields"]

\* C1: the order write and the cart delete of a request are applied together
\* or not at all: in every state, a request has applied both or neither, and
\* the Order keyed by its transaction id exists exactly when its cart delete
\* has been applied.
C1_CommitAtomic ==
    \A r \in Reqs :
        /\ applied[r] \in {{}, {"set", "delete"}}
        /\ Succeeded(r) =>
              (orders[saleResult[r].id].exists <=> "delete" \in applied[r])

\* C1 witness: a commit has applied; the order is there and the cart is gone.
C1_Witness ==
    \E r \in Reqs :
        /\ applied[r] = {"set", "delete"}
        /\ orders[saleResult[r].id].exists
        /\ ~carts[RefOf(r)].exists

\* C2: a request with a missing required field is answered 400 'Missing
\* required fields', has issued no gateway call and no store call, has
\* applied no write, and the step that handles it leaves the store and the
\* gateway as they were.
C2_MissingFieldsRejected ==
    /\ [](\A r \in Reqs :
            pc[r] # "idle" /\ AnyMissing(body[r]) =>
                /\ pc[r] = "done"
                /\ res[r] = MissingFieldsResponse
                /\ calls[r] = NoCalls
                /\ applied[r] = {}
                /\ saleResult[r] = NoSale
                /\ cartSnapshot[r] = NoSnapshot)
    /\ [][\A r \in Reqs :
            pc[r] = "idle" /\ pc'[r] # "idle" /\ AnyMissing(body'[r]) =>
                /\ carts' = carts
                /\ orders' = orders
                /\ transactions' = transactions]_vars

\* C2 witness: a request without cartId was rejected while a cart existed.
C2_Witness ==
    \E r \in Reqs :
        /\ pc[r] = "done"
        /\ body[r].cartId = Undefined
        /\ res[r] = MissingFieldsResponse
        /\ \E k \in CartKeys : carts[k].exists

\* what a declined request has done besides answering
DeclinedDidNothing(r) ==
    /\ pc[r] = "done"
    /\ calls[r].get = 0
    /\ calls[r].commit = 0
    /\ applied[r] = {}
    /\ cartSnapshot[r] = NoSnapshot
    /\ res[r].status = 400
    /\ res[r].success = FALSE

\* C3 as stated: a declined sale creates no order, deletes no cart, reads
\* nothing, and the 400 response carries the gateway's message.
C3_Original ==
    \A r \in Reqs :
        Declined(r) =>
            /\ DeclinedDidNothing(r)
            /\ res[r].message = saleResult[r].message

\* C3: a declined sale creates no order, deletes no cart and reads no cart,
\* whether or not the cart exists; the response is 400 with success false
\* and the gateway's message, or 'Payment processing failed' when the
\* gateway gave no message.
C3_DeclineNoCommit ==
    /\ [](\A r \in Reqs :
            Declined(r) =>
                /\ DeclinedDidNothing(r)
                /\ res[r].message =
                      IF saleResult[r].message = Undefined
                      THEN "Payment processing failed"
                      ELSE saleResult[r].message)
    /\ [][\A r \in Reqs :
            ~Declined(r) /\ Declined(r)' =>
                carts' = carts /\ orders' = orders]_vars

\* C3 witness: a sale was declined while its cart existed; the cart is
\* still there and there is no order.
C3_Witness ==
    \E r \in Reqs :
        /\ Declined(r)
        /\ saleResult[r].message # Undefined
        /\ carts[RefOf(r)].exists
        /\ \A t \in TxIds : ~orders[t].exists

\* the order a committed request wrote
OrderOf(r) == orders[saleResult[r].id]

\* C4: when a commit applies for a request with an accepted sale T and a
\* cart that existed when read, then exactly one Order has transaction id T,
\* it is stored under key T with status Completed, the request's userId and
\* cartId, the parsed amount and the products read, and the cart is gone
\* right after the commit.
C4_CommitResult ==
    /\ [](\A r \in Reqs :
            applied[r] # {} =>
                /\ OrderOf(r).exists
                /\ {t \in TxIds : orders[t].exists
                       /\ orders[t].transactionId = saleResult[r].id}
                      = {saleResult[r].id}
                /\ OrderOf(r).status = "Completed"
                /\ OrderOf(r).userId = body[r].userId
                /\ OrderOf(r).cartId = body[r].cartId
                /\ OrderOf(r).products = cartSnapshot[r].products
                /\ body[r].amount = Amount25 =>
                      OrderOf(r).amount = [nan |-> FALSE, cents |-> 2500])
    /\ [][\A r \in Reqs : CommitStep(r) => ~carts'[RefOf(r)].exists]_vars

\* C4 witness: the end-to-end scenario: cart [A:1] at (U1, C1), a sale of
\* 25.00 accepted; the order is Completed and the cart is absent.
C4_Witness ==
    \E r \in Reqs :
        /\ applied[r] # {}
        /\ body[r].amount = Amount25
        /\ RefOf(r) = CartRef("U1", "C1")
        /\ OrderOf(r).products = "[A:1]"
        /\ OrderOf(r).status = "Completed"
        /\ ~carts[RefOf(r)].exists

\* C5 as stated: every commit that applies deletes a cart that exists at
\* the moment it applies (so one cart yields at most one order).
C5_Original ==
    [][\A r \in Reqs : CommitStep(r) => carts[RefOf(r)].exists]_vars

\* C6 as stated: a commit whose transaction id already has an Order does
\* not apply.
C6_Original ==
    [][\A r \in Reqs :
          pc[r] = "awaitCommit" /\ orders[saleResult[r].id].exists =>
              ~CommitStep(r)]_vars

\* C7 as stated: an Order that exists is never changed or removed.
C7_Original ==
    [][\A t \in TxIds : orders[t].exists => orders'[t] = orders[t]]_vars

\* C8: within a request, the cart is read only after the sale returned
\* success, and a commit is submitted, and applies, only after a successful
\* sale and a cart read that found the cart.
C8_PerRequestOrder ==
    /\ [](\A r \in Reqs :
            /\ calls[r].get > 0 => Succeeded(r) /\ calls[r].sale > 0
            /\ cartSnapshot[r] # NoSnapshot => Succeeded(r) /\ calls[r].get > 0
            /\ calls[r].commit > 0 =>
                  Succeeded(r) /\ cartSnapshot[r] # NoSnapshot
                               /\ cartSnapshot[r].exists
            /\ applied[r] # {} => calls[r].commit > 0)
    /\ [][\A r \in Reqs :
            /\ cartSnapshot'[r] # cartSnapshot[r] => Succeeded(r)
            /\ CommitStep(r) => Succeeded(r) /\ cartSnapshot[r] # NoSnapshot
                                             /\ cartSnapshot[r].exists]_vars

\* C8 witness: a commit has been submitted after sale and cart read.
C8_Witness ==
    \E r \in Reqs :
        /\ pc[r] = "awaitCommit"
        /\ calls[r] = [sale |-> 1, get |-> 1, commit |-> 1]
        /\ Succeeded(r)
        /\ cartSnapshot[r].exists

\* the request's commit was submitted and failed
CommitFailed(r) == pc[r] = "done" /\ calls[r].commit > 0 /\ res[r].status # 200

\* C9: when the commit fails after an accepted sale, the failing step
\* changes neither orders nor carts, there is no Order for the sale's
\* transaction id, the gateway still holds the captured transaction, and
\* the response is 500 with success false and an error, unlike the 400 of a
\* validation failure.
C9_CommitFailure ==
    /\ [](\A r \in Reqs :
            CommitFailed(r) =>
                /\ Succeeded(r)
                /\ applied[r] = {}
                /\ ~orders[saleResult[r].id].exists
                /\ transactions[saleResult[r].id].status = "submitted_for_settlement"
                /\ res[r].status = 500
                /\ res[r].success = FALSE
                /\ "error" \in DOMAIN res[r]
                /\ res[r] # MissingFieldsResponse)
    /\ [][\A r \in Reqs :
            ~CommitFailed(r) /\ CommitFailed(r)' =>
                carts' = carts /\ orders' = orders]_vars

\* C9 witness: a commit failed; the cart it read is still in the store.
C9_Witness ==
    \E r \in Reqs :
        /\ CommitFailed(r)
        /\ carts[RefOf(r)].exists
        /\ res[r].status = 500

\* the sale of r was accepted and its cart read found no cart
CartMissing(r) ==
    Succeeded(r) /\ cartSnapshot[r] # NoSnapshot /\ ~cartSnapshot[r].exists

\* C10: when the sale is accepted and the cart is absent at read time, the
\* response is 404, no commit is submitted, no Order exists for the sale's
\* transaction id, nothing is written, and the gateway keeps the captured
\* transaction.
C10_CartNotFound ==
    /\ [](\A r \in Reqs :
            CartMissing(r) =>
                /\ pc[r] = "done"
                /\ res[r] = [status |-> 404, error |-> "Cart not found"]
                /\ calls[r].commit = 0
                /\ applied[r] = {}
                /\ ~orders[saleResult[r].id].exists
                /\ transactions[saleResult[r].id].status = "submitted_for_settlement")
    /\ [][\A r \in Reqs :
            ~CartMissing(r) /\ CartMissing(r)' =>
                carts' = carts /\ orders' = orders]_vars

\* C10 witness: a captured sale with a 404 answer and no order.
C10_Witness ==
    \E r \in Reqs :
        /\ CartMissing(r)
        /\ res[r].status = 404
        /\ transactions[saleResult[r].id].status = "submitted_for_settlement"
        /\ \A t \in TxIds : ~orders[t].exists

\* C11: nothing is retried: a request issues at most one sale, one cart read
\* and one commit; once it has answered it is finished, and a finished
\* request issues no further call and applies no further write.
C11_NoRetry ==
    /\ [](\A r \in Reqs :
            /\ calls[r].sale <= 1
            /\ calls[r].get <= 1
            /\ calls[r].commit <= 1
            /\ res[r] # NoResponse => pc[r] = "done")
    /\ [][\A r \in Reqs :
            pc[r] = "done" =>
                /\ pc'[r] = "done"
                /\ calls'[r] = calls[r]
                /\ applied'[r] = applied[r]]_vars

\* C11 witness: a request whose commit failed has made one call of each kind
\* while another request is still at work.
C11_Witness ==
    \E r \in Reqs :
        /\ CommitFailed(r)
        /\ calls[r] = [sale |-> 1, get |-> 1, commit |-> 1]
        /\ \E q \in Reqs : pc[q] \notin {"idle", "done"}

\* C13 as stated: the products of the Order a commit writes are the products
\* the cart holds when the commit applies.
C13_Original ==
    [][\A r \in Reqs :
          CommitStep(r) /\ carts[RefOf(r)].exists =>
              orders'[saleResult[r].id].products = carts[RefOf(r)].products]_vars

\* C17: a request that has answered 200 has had its commit applied: both
\* writes took effect, an Order is stored under the transaction id it
\* echoes, that id is the id of its own accepted sale, and the amount
\* echoed is the amount of the request.
C17_SuccessAfterCommit ==
    \A r \in Reqs :
        res[r].status = 200 =>
            /\ res[r].success = TRUE
            /\ Succeeded(r)
            /\ res[r].transactionId = saleResult[r].id
            /\ applied[r] = {"set", "delete"}
            /\ orders[res[r].transactionId].exists
            /\ orders[res[r].transactionId].transactionId = res[r].transactionId
            /\ res[r].amount = body[r].amount

\* C17 witness: a 200 answer echoing 25.00.
C17_Witness ==
    \E r \in Reqs :
        /\ res[r].status = 200
        /\ res[r].amount = Amount25
        /\ orders[res[r].transactionId].exists

\* C18: every Order in the store was written by a request whose sale the
\* gateway accepted: its key and transactionId are that sale's id, its
\* userId and cartId are that request's, and the gateway holds the captured
\* transaction.
C18_OrdersHaveSales ==
    \A t \in TxIds :
        orders[t].exists =>
            /\ orders[t].transactionId = t
            /\ transactions[t] # NoTransaction
            /\ \E r \in Reqs :
                  /\ Succeeded(r)
                  /\ saleResult[r].id = t
                  /\ applied[r] # {}
                  /\ orders[t].userId = body[r].userId
                  /\ orders[t].cartId = body[r].cartId

\* C18 witness: the second sale's order is in the store, the first sale's
\* is not.
C18_Witness ==
    /\ orders[2].exists
    /\ ~orders[1].exists
    /\ transactions[1] # NoTransaction

\* C19: the token, verify and health endpoints change no Order and no Cart;
\* a commit changes only the Order of its own transaction id and the Cart
\* it names; every change of an Order and every removal of a Cart is the
\* commit of the request that owns it.
C19_Frame ==
    [][/\ out' # out => carts' = carts /\ orders' = orders
       /\ \A r \in Reqs :
             CommitStep(r) =>
                 /\ \A t \in TxIds \ {saleResult[r].id} : orders'[t] = orders[t]
                 /\ \A k \in CartKeys \ {RefOf(r)} : carts'[k] = carts[k]
       /\ \A t \in TxIds :
             orders'[t] # orders[t] =>
                 \E r \in Reqs : CommitStep(r) /\ saleResult[r].id = t
       /\ \A k \in CartKeys :
             carts[k].exists /\ ~carts'[k].exists =>
                 \E r \in Reqs : CommitStep(r) /\ RefOf(r) = k]_vars

\* C19 witness: a commit on one cart has applied, the other cart is still
\* there, and one of the other endpoints has answered.
C19_Witness ==
    /\ out # NoResponse
    /\ \E r \in Reqs :
          /\ applied[r] # {}
          /\ \E k \in CartKeys \ {RefOf(r)} : carts[k].exists

VerifyEndpoint == "GET /verify_payment"

TokenEndpoints == {"GET /generate-braintree-token", "POST /generate-braintree-token"}

\* the last answer of the other endpoints came from this endpoint
Answered(endpoint) == out # NoResponse /\ out.endpoint = endpoint

\* C14: when the lookup of GET /verify_payment resolves, the answer is 200,
\* isValid is true exactly when the status the gateway reported is settled
\* or submitted_for_settlement, and the answer echoes that status and the
\* transaction's amount; no status gives an error answer.
C14_VerifyValid ==
    Answered(VerifyEndpoint) /\ out.lookups = 1 /\ out.found =>
        /\ out.status = 200
        /\ out.isValid = (out.gwStatus \in {"settled", "submitted_for_settlement"})
        /\ out.txStatus = out.gwStatus
        /\ out.amount = transactions[out.query].amount
        /\ "error" \notin DOMAIN out

\* C14 witness: a declined transaction is reported not valid with a 200.
C14_Witness ==
    /\ Answered(VerifyEndpoint)
    /\ out.status = 200
    /\ out.txStatus = "processor_declined"
    /\ out.isValid = FALSE

\* C15: GET /verify_payment without transactionId answers 400 and makes no
\* lookup; when the lookup fails the answer is 404 with isValid false; the
\* endpoint changes neither orders nor carts.
C15_VerifyErrors ==
    /\ [](Answered(VerifyEndpoint) =>
            /\ out.query = NoTransactionId =>
                  out.status = 400 /\ out.lookups = 0
            /\ out.lookups = 1 /\ ~out.found =>
                  out.status = 404 /\ out.isValid = FALSE)
    /\ [][out' # out /\ out'.endpoint = VerifyEndpoint =>
             carts' = carts /\ orders' = orders]_vars

\* C15 witness: a lookup of a known transaction failed while an order was
\* in the store.
C15_Witness ==
    /\ Answered(VerifyEndpoint)
    /\ out.status = 404
    /\ Known(out.query)
    /\ \E t \in TxIds : orders[t].exists

\* the sale call of request r raised
SaleFault(r) == saleResult[r].kind = "threw"

\* C16: a gateway fault fails closed: a token endpoint whose gateway call
\* raised answers 500 with an error and no token; a payment request whose
\* sale call raised answers 500 with success false, reads no cart and
\* writes nothing.
C16_GatewayFault ==
    /\ [](/\ out # NoResponse /\ out.endpoint \in TokenEndpoints
                /\ out.gateway = "rejected" =>
                    /\ out.status = 500
                    /\ "error" \in DOMAIN out
                    /\ "token" \notin DOMAIN out
          /\ \A r \in Reqs :
                SaleFault(r) =>
                    /\ pc[r] = "done"
                    /\ res[r].status = 500
                    /\ res[r].success = FALSE
                    /\ calls[r].get = 0
                    /\ calls[r].commit = 0
                    /\ cartSnapshot[r] = NoSnapshot
                    /\ applied[r] = {})
    /\ [][\A r \in Reqs :
            ~SaleFault(r) /\ SaleFault(r)' =>
                carts' = carts /\ orders' = orders]_vars

\* C16 witness: a sale call raised while its cart existed, and a token
\* endpoint answered a gateway fault.
C16_Witness ==
    /\ out # NoResponse
    /\ out.endpoint \in TokenEndpoints
    /\ out.status = 500
    /\ \E r \in Reqs : SaleFault(r) /\ carts[RefOf(r)].exists

\* the steps the handler can take from one position to the next
HandlerSteps ==
    {<<"idle", "awaitSale">>, <<"idle", "done">>,
     <<"awaitSale", "awaitCart">>, <<"awaitSale", "done">>,
     <<"awaitCart", "awaitCommit">>, <<"awaitCart", "done">>,
     <<"awaitCommit", "committed">>, <<"awaitCommit", "done">>,
     <<"committed", "done">>}

\* C12: a request moves Received, Validated (sale called), Authorized (sale
\* accepted), Committed, or ends rejected or failed; it has sent a response
\* exactly when it has ended, and that response never changes; a request
\* that answers 200 was validated, authorized and committed; and, every
\* awaited call eventually returning or raising, every request that has
\* arrived eventually ends.
C12_StateMachine ==
    /\ [](\A r \in Reqs :
            /\ (res[r] # NoResponse) <=> (pc[r] = "done")
            /\ res[r].status \in {0, 200, 400, 404, 500}
            /\ pc[r] = "committed" \/ res[r].status = 200 =>
                  /\ Validate(body[r])
                  /\ calls[r].sale = 1
                  /\ Succeeded(r)
                  /\ applied[r] # {})
    /\ [][\A r \in Reqs :
            /\ pc'[r] # pc[r] => <<pc[r], pc'[r]>> \in HandlerSteps
            /\ res[r] # NoResponse => res'[r] = res[r]]_vars
    /\ \A r \in Reqs : (pc[r] # "idle") ~> (pc[r] = "done")

\* C12 witness: one request has ended Committed, another Failed.
C12_Witness ==
    \E r, q \in Reqs :
        /\ pc[r] = "done" /\ res[r].status = 200
        /\ pc[q] = "done" /\ res[q].status = 500

============================================================================
